---- MODULE Spec2Model ----
(***************************************************************************)
(* Model of the YuGiOh card mirror (src/main.py): the one-time ingestion   *)
(* run initialize_database, the WSGI middleware that triggers it on the    *)
(* first request, the shared in-memory SQLite store with the connections   *)
(* that keep it alive, and the /db-status, /search and /card/<id> request  *)
(* handlers.  Worker threads interleave at the granularity of the writes   *)
(* and reads of the shared objects (db_status, initialized, db_lock, the   *)
(* store, image_cache, the middleware flag).                               *)
(***************************************************************************)
EXTENDS Integers, Sequences, FiniteSets, TLC

\* Number of worker threads serving requests concurrently.
NumThreads == 2

Threads == 1..NumThreads

\* batch_size of the ingestion loop.
batch_size == 100

VARIABLES
    db_status,        \* the global status record
    initialized,      \* module flag: a run has completed successfully
    db_lock,          \* 0 when free, else the thread holding it
    mw_initialized,   \* DatabaseInitMiddleware._db_initialized
    table_exists,     \* the shared store has its cards table
    cards_table,      \* committed rows of the cards table
    conn,             \* per thread: the connections its running call holds
    garbage,          \* connections of finished calls, open but unreferenced
    g_db,             \* per thread: the request connection g.db is open
    image_cache,      \* card id -> image bytes
    pc,               \* per thread: position in middleware / run / handler
    loc,              \* per thread: locals of its initialize_database call
    req,              \* per thread: the request being served
    resp,             \* per thread: the response produced by the handler
    upstream,         \* what the catalog endpoint may answer to a GET
    upstream_calls,   \* number of GETs of the upstream catalog (observation)
    ingested,         \* the batch of the run that completed (observation)
    run_failed        \* some run has raised an exception (observation)

vars == <<db_status, initialized, db_lock, mw_initialized, table_exists,
          cards_table, conn, garbage, g_db, image_cache, pc, loc, req, resp,
          upstream, upstream_calls, ingested, run_failed>>

-----------------------------------------------------------------------------
(* Text: strings are sequences of one-character strings.                   *)

Lower(c) ==
    CASE c = "A" -> "a"
      [] c = "D" -> "d"
      [] c = "R" -> "r"
      [] c = "W" -> "w"
      [] OTHER -> c

RECURSIVE LStrip(_)
LStrip(s) == IF s # <<>> /\ Head(s) = " " THEN LStrip(Tail(s)) ELSE s

RECURSIVE RStrip(_)
RStrip(s) ==
    IF s # <<>> /\ s[Len(s)] = " " THEN RStrip(SubSeq(s, 1, Len(s) - 1)) ELSE s

\* str.strip()
Strip(s) == RStrip(LStrip(s))

\* SQLite's LIKE without ESCAPE: % matches any run of characters, _ matches
\* any one character, letters compare case-insensitively.
RECURSIVE Like(_, _)
Like(p, s) ==
    IF p = <<>> THEN s = <<>>
    ELSE IF Head(p) = "%"
         THEN Like(Tail(p), s) \/ (s # <<>> /\ Like(p, Tail(s)))
    ELSE IF s = <<>> THEN FALSE
    ELSE IF Head(p) = "_" THEN Like(Tail(p), Tail(s))
    ELSE Lower(Head(p)) = Lower(Head(s)) /\ Like(Tail(p), Tail(s))

-----------------------------------------------------------------------------
(* Upstream catalog records and what the catalog endpoint may answer.      *)

\* One record of the upstream "data" array; card_images is the list of
\* image URLs of the record (empty for a malformed record).
Card(i, n, d, imgs) ==
    [id |-> i, name |-> n, type |-> "Monster", desc |-> d, card_images |-> imgs]

BlueDragon == Card(1, <<"D", "r", "a">>, <<"f">>, <<"url1">>)
RedWolf    == Card(2, <<"W", "o">>, <<"i", " ", "d", "r", "a">>, <<"url2">>)
Malformed  == Card(2, <<"W", "o">>, <<"i", " ", "d", "r", "a">>, <<>>)

\* A catalog of n well-formed records with ids 1..n.
Catalog(n) == [i \in 1..n |-> Card(i, <<"c">>, <<"x">>, <<"url", i>>)]

\* A catalog that fills one chunk and starts a second one, and the same
\* catalog followed by a malformed record.
TwoChunks == Catalog(batch_size + 1)
TwoChunksMalformed ==
    Append(TwoChunks, Card(batch_size + 2, <<"c">>, <<"x">>, <<>>))

\* Answers of the catalog endpoint with more records than one chunk holds.
ChunkResponses ==
    { [status_code |-> 200, data |-> TwoChunks],
      [status_code |-> 200, data |-> TwoChunksMalformed] }

\* requests.get(...) of the catalog: a status code and the parsed "data".
UpstreamResponses ==
    { [status_code |-> 200, data |-> <<BlueDragon, RedWolf>>],
      [status_code |-> 200, data |-> <<BlueDragon, Malformed>>],
      [status_code |-> 200, data |-> <<>>],
      [status_code |-> 500, data |-> <<>>] }

\* json.dumps / json.loads of a record.
json_dumps(card) == [json |-> card]
json_loads(text) == text.json

\* The row inserted for a card.
Row(card) ==
    [id |-> card.id, name |-> card.name, type |-> card.type, desc |-> card.desc,
     card_data |-> json_dumps(card), image_url |-> card.card_images[1]]

\* requests.get(image_url) of a card image: the status codes it may answer.
ImageStatusCodes == {200, 404}
ImageBytes(url) == <<"jpeg", url>>

\* Query strings of /search and ids of /card/<id> that requests may carry.
Terms ==
    { <<>>, <<" ">>, <<"d", "r", "a">>, <<" ", "w", "o", " ">>, <<"%">>,
      <<"_">> }
CardIds == {2, 3}
Routes == {"db-status", "search", "card"}

-----------------------------------------------------------------------------
(* Initial state: the module globals as main.py defines them.              *)

NoConn == [open |-> FALSE, txn |-> FALSE, pending |-> {}]
NoLoc  == [cards |-> <<>>, i |-> 0, gets |-> 0, exc |-> <<>>]
NoReq  == [route |-> "none", term |-> <<>>, id |-> 0, gate |-> "none"]
NoResp == [status |-> 0, body |-> <<>>, touched |-> {}]

Init ==
    /\ db_status = [state |-> "not_started", total_cards |-> 0,
                    current_card |-> 0,
                    message |-> <<"Database not initialized">>,
                    progress |-> 0, error |-> <<>>, last_updated |-> "None"]
    /\ initialized = FALSE
    /\ db_lock = 0
    /\ mw_initialized = FALSE
    /\ table_exists = FALSE
    /\ cards_table = {}
    /\ conn = [t \in Threads |-> NoConn]
    /\ garbage = [open |-> FALSE, txn |-> FALSE]
    /\ g_db = [t \in Threads |-> FALSE]
    /\ image_cache = <<>>
    /\ pc = [t \in Threads |-> "idle"]
    /\ loc = [t \in Threads |-> NoLoc]
    /\ req = [t \in Threads |-> NoReq]
    /\ resp = [t \in Threads |-> NoResp]
    /\ upstream = UpstreamResponses
    /\ upstream_calls = 0
    /\ ingested = <<>>
    /\ run_failed = FALSE

\* The same start with a catalog endpoint that serves more than one chunk,
\* and with two of the workers receiving requests.
ChunkInit ==
    /\ db_status = [state |-> "not_started", total_cards |-> 0,
                    current_card |-> 0,
                    message |-> <<"Database not initialized">>,
                    progress |-> 0, error |-> <<>>, last_updated |-> "None"]
    /\ initialized = FALSE
    /\ db_lock = 0
    /\ mw_initialized = FALSE
    /\ table_exists = FALSE
    /\ cards_table = {}
    /\ conn = [t \in Threads |-> NoConn]
    /\ garbage = [open |-> FALSE, txn |-> FALSE]
    /\ g_db = [t \in Threads |-> FALSE]
    /\ image_cache = <<>>
    /\ pc = [t \in Threads |-> IF t <= 2 THEN "idle" ELSE "unused"]
    /\ loc = [t \in Threads |-> NoLoc]
    /\ req = [t \in Threads |-> NoReq]
    /\ resp = [t \in Threads |-> NoResp]
    /\ upstream = ChunkResponses
    /\ upstream_calls = 0
    /\ ingested = <<>>
    /\ run_failed = FALSE

-----------------------------------------------------------------------------
(* The shared in-memory store (DB_URI, mode=memory&cache=shared).          *)

\* Some connection to the shared store is open: one held by a running call
\* (c), an unreferenced one (u) or a request connection (g).
AnyOpen(c, u, g) ==
    (\E t \in Threads : c[t].open) \/ u.open \/ (\E t \in Threads : g[t])

\* The store is deleted when its last connection closes.
TableAfter(c, u, g) == IF AnyOpen(c, u, g) THEN table_exists ELSE FALSE
RowsAfter(c, u, g)  == IF AnyOpen(c, u, g) THEN cards_table ELSE {}

\* Another connection holds the write lock of the cards table.
TableLocked(t) == garbage.txn \/ (\E u \in Threads \ {t} : conn[u].txn)

\* The function returns: its connections stay open without a reference.
Abandon(c) == [open |-> garbage.open \/ c.open, txn |-> garbage.txn \/ c.txn]

Min(a, b) == IF a <= b THEN a ELSE b

-----------------------------------------------------------------------------
(* DatabaseInitMiddleware.__call__                                         *)

\* A middleware that passes every request on at once.
RequestUnguarded(t) ==
    /\ pc[t] = "idle"
    /\ pc' = [pc EXCEPT ![t] = "handler"]
    /\ UNCHANGED <<db_status, initialized, db_lock, mw_initialized,
                   table_exists, cards_table, conn, garbage, g_db, image_cache,
                   loc, req, resp, upstream, upstream_calls, ingested,
                   run_failed>>

\* A request arrives on an idle worker; the middleware reads its flag.
Request(t) ==
    /\ pc[t] = "idle"
    /\ pc' = [pc EXCEPT ![t] = IF mw_initialized THEN "handler" ELSE "call"]
    /\ UNCHANGED <<db_status, initialized, db_lock, mw_initialized,
                   table_exists, cards_table, conn, garbage, g_db, image_cache,
                   loc, req, resp, upstream, upstream_calls, ingested,
                   run_failed>>

\* initialize_database() has returned: the middleware sets its flag and
\* passes the request on to the application.
MiddlewareReturn(t) ==
    /\ pc[t] = "mw_return"
    /\ mw_initialized' = TRUE
    /\ pc' = [pc EXCEPT ![t] = "handler"]
    /\ UNCHANGED <<db_status, initialized, db_lock, table_exists, cards_table,
                   conn, garbage, g_db, image_cache, loc, req, resp, upstream,
                   upstream_calls, ingested, run_failed>>

-----------------------------------------------------------------------------
(* initialize_database                                                     *)

\* A lock that never blocks.
LockNeverHeld == TRUE

\* db_lock can be taken.
LockFree == db_lock = 0

\* with db_lock: blocks until the lock is free.
Acquire(t) ==
    /\ pc[t] = "call"
    /\ LockFree
    /\ db_lock' = t
    /\ pc' = [pc EXCEPT ![t] = "check"]
    /\ loc' = [loc EXCEPT ![t] = NoLoc]
    /\ UNCHANGED <<db_status, initialized, mw_initialized, table_exists,
                   cards_table, conn, garbage, g_db, image_cache, req, resp,
                   upstream, upstream_calls, ingested, run_failed>>

\* A guard that never remembers a completed run.
NeverInitialized == FALSE

\* The guard of the run: a run that already completed makes this call return.
AlreadyInitialized == initialized

\* if initialized: return  /  else db_status.update(state "initializing")
Check(t) ==
    /\ pc[t] = "check"
    /\ IF AlreadyInitialized
       THEN /\ db_lock' = 0
            /\ pc' = [pc EXCEPT ![t] = "mw_return"]
            /\ UNCHANGED db_status
       ELSE /\ db_status' = [db_status EXCEPT
                                !.state = "initializing",
                                !.message = <<"Initializing database...">>,
                                !.progress = 0,
                                !.error = <<>>]
            /\ pc' = [pc EXCEPT ![t] = "connect"]
            /\ UNCHANGED db_lock
    /\ UNCHANGED <<initialized, mw_initialized, table_exists, cards_table,
                   conn, garbage, g_db, image_cache, loc, req, resp, upstream,
                   upstream_calls, ingested, run_failed>>

\* Open keep_alive_conn and conn, CREATE TABLE IF NOT EXISTS, commit, then
\* db_status.update(state "updating").
Connect(t) ==
    /\ pc[t] = "connect"
    /\ conn' = [conn EXCEPT ![t] = [open |-> TRUE, txn |-> FALSE, pending |-> {}]]
    /\ table_exists' = TRUE
    /\ db_status' = [db_status EXCEPT
                        !.state = "updating",
                        !.message = <<"Fetching card data from API...">>,
                        !.progress = 10]
    /\ pc' = [pc EXCEPT ![t] = "fetch"]
    /\ UNCHANGED <<initialized, db_lock, mw_initialized, cards_table, garbage,
                   g_db, image_cache, loc, req, resp, upstream, upstream_calls,
                   ingested, run_failed>>

\* An exception that leaves the with block without releasing the lock.
RaiseKeepingLock(t, msg) ==
    /\ db_lock' = db_lock
    /\ pc' = [pc EXCEPT ![t] = "except"]
    /\ loc' = [loc EXCEPT ![t].exc = msg,
                          ![t].gets = IF pc[t] = "fetch" THEN @ + 1 ELSE @]
    /\ run_failed' = TRUE

\* An exception leaves the with block: the lock is released and control
\* passes to the except clause with the message of the exception.
Raise(t, msg) ==
    /\ db_lock' = 0
    /\ pc' = [pc EXCEPT ![t] = "except"]
    /\ loc' = [loc EXCEPT ![t].exc = msg,
                          ![t].gets = IF pc[t] = "fetch" THEN @ + 1 ELSE @]
    /\ run_failed' = TRUE

\* requests.get of the catalog, the status and empty-payload checks, and
\* db_status.update(total_cards, progress 20).
Fetch(t) ==
    /\ pc[t] = "fetch"
    /\ upstream_calls' = upstream_calls + 1
    /\ \E response \in upstream :
         IF response.status_code # 200
         THEN /\ Raise(t, <<"API returned status code", response.status_code>>)
              /\ UNCHANGED db_status
         ELSE IF response.data = <<>>
         THEN /\ Raise(t, <<"No card data received from API">>)
              /\ UNCHANGED db_status
         ELSE /\ loc' = [loc EXCEPT ![t].cards = response.data, ![t].i = 0,
                                     ![t].gets = @ + 1]
              /\ db_status' = [db_status EXCEPT
                                  !.total_cards = Len(response.data),
                                  !.message = <<"Processing cards", Len(response.data)>>,
                                  !.progress = 20]
              /\ pc' = [pc EXCEPT ![t] = "loop"]
              /\ UNCHANGED <<db_lock, run_failed>>
    /\ UNCHANGED <<initialized, mw_initialized, table_exists, cards_table,
                   conn, garbage, g_db, image_cache, req, resp, upstream,
                   ingested>>

\* progress = min(90, 20 + (70 * current_card // len(cards)))
Progress(current, n) == Min(90, 20 + ((70 * current) \div n))

\* The position just processed ends a chunk: conn.commit() follows.
ChunkEnds(k, n) == k % batch_size = 0 \/ k = n

\* One iteration of the card loop: count the card and publish the progress,
\* build the row, INSERT it, and commit when the chunk is complete.
ProcessCard(t) ==
    /\ pc[t] = "loop"
    /\ LET cards   == loc[t].cards
           k       == loc[t].i + 1
           card    == cards[k]
           current == db_status.current_card + 1
           counted == [db_status EXCEPT
                          !.current_card = current,
                          !.message = <<"Processing cards", current,
                                        db_status.total_cards>>,
                          !.progress = Progress(current, Len(cards))]
           taken   == {r.id : r \in cards_table \cup conn[t].pending}
       IN
       /\ db_status' = counted
       /\ IF card.card_images = <<>>
          THEN \* card['card_images'][0] fails before the INSERT
               /\ Raise(t, <<"card_images">>)
               /\ UNCHANGED <<conn, cards_table>>
          ELSE IF TableLocked(t)
          THEN /\ Raise(t, <<"database table is locked">>)
               /\ UNCHANGED <<conn, cards_table>>
          ELSE IF card.id \in taken
          THEN \* the failed INSERT leaves the transaction of conn open
               /\ Raise(t, <<"UNIQUE constraint failed: cards.id">>)
               /\ conn' = [conn EXCEPT ![t].txn = TRUE]
               /\ UNCHANGED cards_table
          ELSE IF ChunkEnds(k, Len(cards))
          THEN /\ cards_table' = cards_table \cup conn[t].pending \cup {Row(card)}
               /\ conn' = [conn EXCEPT ![t].txn = FALSE, ![t].pending = {}]
               /\ loc' = [loc EXCEPT ![t].i = k]
               /\ pc' = [pc EXCEPT ![t] = IF k = Len(cards) THEN "finish" ELSE "loop"]
               /\ UNCHANGED <<db_lock, run_failed>>
          ELSE /\ conn' = [conn EXCEPT ![t].txn = TRUE,
                                       ![t].pending = @ \cup {Row(card)}]
               /\ loc' = [loc EXCEPT ![t].i = k]
               /\ pc' = [pc EXCEPT ![t] = "loop"]
               /\ UNCHANGED <<db_lock, cards_table, run_failed>>
    /\ UNCHANGED <<initialized, mw_initialized, table_exists, garbage, g_db,
                   image_cache, req, resp, upstream, upstream_calls, ingested>>

\* A run that publishes "ready" before it has entered the card loop.
FinishBeforeLoop(t) ==
    /\ pc[t] = "loop"
    /\ loc[t].i = 0
    /\ db_status.state # "ready"
    /\ initialized' = TRUE
    /\ db_status' = [db_status EXCEPT !.state = "ready", !.progress = 100]
    /\ ingested' = loc[t].cards
    /\ UNCHANGED <<db_lock, mw_initialized, table_exists, cards_table, conn,
                   garbage, g_db, image_cache, pc, loc, req, resp, upstream,
                   upstream_calls, run_failed>>

\* initialized = True; db_status.update(state "ready", progress 100).
Finish(t) ==
    /\ pc[t] = "finish"
    /\ initialized' = TRUE
    /\ db_status' = [db_status EXCEPT
                        !.state = "ready",
                        !.message = <<"Database ready", db_status.total_cards>>,
                        !.progress = 100,
                        !.last_updated = "now"]
    /\ ingested' = loc[t].cards
    /\ pc' = [pc EXCEPT ![t] = "exit"]
    /\ UNCHANGED <<db_lock, mw_initialized, table_exists, cards_table, conn,
                   garbage, g_db, image_cache, loc, req, resp, upstream,
                   upstream_calls, run_failed>>

\* The with block ends and the function returns: the lock is released and
\* the local connections lose their last reference without being closed.
Exit(t) ==
    /\ pc[t] = "exit"
    /\ db_lock' = 0
    /\ garbage' = Abandon(conn[t])
    /\ conn' = [conn EXCEPT ![t] = NoConn]
    /\ loc' = [loc EXCEPT ![t] = NoLoc]
    /\ pc' = [pc EXCEPT ![t] = "mw_return"]
    /\ UNCHANGED <<db_status, initialized, mw_initialized, table_exists,
                   cards_table, g_db, image_cache, req, resp, upstream,
                   upstream_calls, ingested, run_failed>>

\* An except clause that publishes the error state without the message.
ErrorStatusNoMessage(msg) ==
    [db_status EXCEPT !.state = "error",
                      !.message = <<"Failed to initialize database">>]

\* The status the except clause publishes.
ErrorStatus(msg) ==
    [db_status EXCEPT !.state = "error",
                      !.message = <<"Failed to initialize database">>,
                      !.error = msg]

\* except Exception: db_status.update(state "error"), then the function
\* returns and its connections (if it opened any) become unreferenced.
Except(t) ==
    /\ pc[t] = "except"
    /\ db_status' = ErrorStatus(loc[t].exc)
    /\ garbage' = Abandon(conn[t])
    /\ conn' = [conn EXCEPT ![t] = NoConn]
    /\ loc' = [loc EXCEPT ![t] = NoLoc]
    /\ pc' = [pc EXCEPT ![t] = "mw_return"]
    /\ UNCHANGED <<initialized, db_lock, mw_initialized, table_exists,
                   cards_table, g_db, image_cache, req, resp, upstream,
                   upstream_calls, ingested, run_failed>>

\* The garbage collector finalizes the unreferenced connections of a finished
\* run: an open transaction is rolled back, the connections are closed, and
\* the store goes with its last connection.  When this happens, and whether
\* a pass reaches every such connection or only the one holding the
\* transaction, is not determined by the program.
CollectGarbage ==
    /\ garbage.open
    /\ \E closed \in { [open |-> FALSE, txn |-> FALSE] } \cup
                      { [open |-> TRUE, txn |-> FALSE] : x \in {garbage.txn} \ {FALSE} } :
          /\ garbage' = closed
          /\ table_exists' = TableAfter(conn, closed, g_db)
          /\ cards_table' = RowsAfter(conn, closed, g_db)
    /\ UNCHANGED <<db_status, initialized, db_lock, mw_initialized, conn, g_db,
                   image_cache, pc, loc, req, resp, upstream, upstream_calls,
                   ingested, run_failed>>

-----------------------------------------------------------------------------
(* Request handlers                                                        *)

\* A gate that closes only before the first run has started.
NotReadyBeforeStart(state) == state = "not_started"

\* The readiness gate of /search and /card/<id>: db_status["state"] != "ready".
NotReady(state) == state # "ready"

\* The application dispatches the request to the handler of its route and
\* the handler starts.  /db-status answers the status record; /search and
\* /card/<id> read db_status["state"] and answer 503 unless it is "ready".
\* Of the status record a response body carries, the state field is kept.
Handler(t) ==
    /\ pc[t] = "handler"
    /\ \E route \in Routes :
       /\ req' = [req EXCEPT ![t].route = route, ![t].gate = db_status.state]
       /\ IF route = "db-status"
          THEN /\ resp' = [resp EXCEPT ![t] =
                              [status |-> 200, body |-> <<db_status.state>>, touched |-> {}]]
               /\ pc' = [pc EXCEPT ![t] = "teardown"]
          ELSE IF NotReady(db_status.state)
          THEN /\ resp' = [resp EXCEPT ![t] =
                              [status |-> 503, body |-> <<db_status.state>>,
                               touched |-> {}]]
               /\ pc' = [pc EXCEPT ![t] = "teardown"]
          ELSE /\ pc' = [pc EXCEPT ![t] = "query"]
               /\ UNCHANGED resp
    /\ UNCHANGED <<db_status, initialized, db_lock, mw_initialized,
                   table_exists, cards_table, conn, garbage, g_db, image_cache,
                   loc, upstream, upstream_calls, ingested, run_failed>>

\* A statement on a request connection fails: the cards table is gone with
\* the store, or a run's open transaction holds its write lock.
QueryFails == ~table_exists \/ garbage.txn \/ (\E u \in Threads : conn[u].txn)

\* The rows of S in rowid order (id is the INTEGER PRIMARY KEY).
InOrder(S) ==
    [n \in 1..Cardinality(S) |->
        CHOOSE r \in S : Cardinality({x \in S : x.id < r.id}) = n - 1]

\* SELECT card_data FROM cards WHERE name LIKE ? OR desc LIKE ?
\* with both parameters '%query%'.
SelectCards(query) ==
    LET pattern == <<"%">> \o query \o <<"%">>
        rows == InOrder({r \in cards_table :
                            Like(pattern, r.name) \/ Like(pattern, r.desc)})
    IN [n \in 1..Len(rows) |-> json_loads(rows[n].card_data)]

\* /search after the gate: strip the query, answer [] for a blank one, else
\* run the LIKE query on a request connection.
Search(t) ==
    /\ pc[t] = "query"
    /\ req[t].route = "search"
    /\ \E term \in Terms :
         LET query == Strip(term) IN
         /\ req' = [req EXCEPT ![t].term = term]
         /\ IF query = <<>>
            THEN /\ resp' = [resp EXCEPT ![t] =
                                [status |-> 200, body |-> <<>>, touched |-> {}]]
                 /\ UNCHANGED g_db
            ELSE /\ g_db' = [g_db EXCEPT ![t] = TRUE]
                 /\ resp' = [resp EXCEPT ![t] =
                                IF QueryFails
                                THEN [status |-> 500, body |-> <<>>,
                                      touched |-> {"store"}]
                                ELSE [status |-> 200, body |-> SelectCards(query),
                                      touched |-> {"store"}]]
    /\ pc' = [pc EXCEPT ![t] = "teardown"]
    /\ UNCHANGED <<db_status, initialized, db_lock, mw_initialized,
                   table_exists, cards_table, conn, garbage, image_cache, loc,
                   upstream, upstream_calls, ingested, run_failed>>

\* /card/<id> after the gate: answer from image_cache, else look the image
\* URL up in the store; 404 when there is no row.
CardLookup(t) ==
    /\ pc[t] = "query"
    /\ req[t].route = "card"
    /\ \E card_id \in CardIds :
         /\ req' = [req EXCEPT ![t].id = card_id]
         /\ IF card_id \in DOMAIN image_cache
            THEN /\ resp' = [resp EXCEPT ![t] =
                                [status |-> 200, body |-> image_cache[card_id],
                                 touched |-> {"cache"}]]
                 /\ pc' = [pc EXCEPT ![t] = "teardown"]
                 /\ UNCHANGED g_db
            ELSE /\ g_db' = [g_db EXCEPT ![t] = TRUE]
                 /\ IF QueryFails
                    THEN /\ resp' = [resp EXCEPT ![t] =
                                        [status |-> 500, body |-> <<>>,
                                         touched |-> {"cache", "store"}]]
                         /\ pc' = [pc EXCEPT ![t] = "teardown"]
                    ELSE IF \A r \in cards_table : r.id # card_id
                    THEN /\ resp' = [resp EXCEPT ![t] =
                                        [status |-> 404, body |-> <<"Card not found">>,
                                         touched |-> {"cache", "store"}]]
                         /\ pc' = [pc EXCEPT ![t] = "teardown"]
                    ELSE /\ resp' = [resp EXCEPT ![t] =
                                        [status |-> 0,
                                         body |-> <<(CHOOSE r \in cards_table :
                                                       r.id = card_id).image_url>>,
                                         touched |-> {"cache", "store"}]]
                         /\ pc' = [pc EXCEPT ![t] = "image"]
    /\ UNCHANGED <<db_status, initialized, db_lock, mw_initialized,
                   table_exists, cards_table, conn, garbage, image_cache, loc,
                   upstream, upstream_calls, ingested, run_failed>>

\* A cache that keeps only the entry of the latest fetch.
CacheOnlyLatest(status_code, card_id, bytes) ==
    IF status_code = 200 THEN (card_id :> bytes) ELSE image_cache

\* A cache that stores whatever the fetch returned.
CacheAnyAnswer(status_code, card_id, bytes) ==
    (card_id :> bytes) @@ image_cache

\* if response.status_code == 200: image_cache[card_id] = response.content
CacheAfter(status_code, card_id, bytes) ==
    IF status_code = 200 THEN (card_id :> bytes) @@ image_cache
    ELSE image_cache

\* requests.get(result[0]): cache and send the bytes on 200, else 404.
CardFetch(t) ==
    /\ pc[t] = "image"
    /\ \E status_code \in ImageStatusCodes :
         LET url == resp[t].body[1] IN
         /\ image_cache' = CacheAfter(status_code, req[t].id, ImageBytes(url))
         /\ resp' = [resp EXCEPT ![t] =
                        IF status_code = 200
                        THEN [status |-> 200, body |-> ImageBytes(url),
                              touched |-> {"cache", "store", "net"}]
                        ELSE [status |-> 404, body |-> <<"Image not found">>,
                              touched |-> {"cache", "store", "net"}]]
    /\ pc' = [pc EXCEPT ![t] = "teardown"]
    /\ UNCHANGED <<db_status, initialized, db_lock, mw_initialized,
                   table_exists, cards_table, conn, garbage, g_db, loc, req,
                   upstream, upstream_calls, ingested, run_failed>>

\* close_db at the end of the request: g.db is closed if it was opened, and
\* the response leaves the worker.
Teardown(t) ==
    /\ pc[t] = "teardown"
    /\ LET closed == [g_db EXCEPT ![t] = FALSE]
       IN /\ g_db' = closed
          /\ table_exists' = TableAfter(conn, garbage, closed)
          /\ cards_table' = RowsAfter(conn, garbage, closed)
    /\ req' = [req EXCEPT ![t] = NoReq]
    /\ resp' = [resp EXCEPT ![t] = NoResp]
    /\ pc' = [pc EXCEPT ![t] = "idle"]
    /\ UNCHANGED <<db_status, initialized, db_lock, mw_initialized, conn,
                   garbage, image_cache, loc, upstream, upstream_calls,
                   ingested, run_failed>>

-----------------------------------------------------------------------------

Next ==
    \E t \in Threads :
        \/ Request(t)
        \/ MiddlewareReturn(t)
        \/ Acquire(t)
        \/ Check(t)
        \/ Connect(t)
        \/ Fetch(t)
        \/ ProcessCard(t)
        \/ Finish(t)
        \/ Exit(t)
        \/ Except(t)
        \/ Handler(t)
        \/ Search(t)
        \/ CardLookup(t)
        \/ CardFetch(t)
        \/ Teardown(t)
        \/ CollectGarbage

Spec == Init /\ [][Next]_vars

ChunkSpec == ChunkInit /\ [][Next]_vars

\* What a worker thread does after it has received a request.  The upstream
\* call is taken to return (Fetch), and a thread that can run keeps running.
ThreadStep(t) ==
    \/ MiddlewareReturn(t)
    \/ Acquire(t)
    \/ Check(t)
    \/ Connect(t)
    \/ Fetch(t)
    \/ ProcessCard(t)
    \/ Finish(t)
    \/ Exit(t)
    \/ Except(t)
    \/ Handler(t)
    \/ Search(t)
    \/ CardLookup(t)
    \/ CardFetch(t)
    \/ Teardown(t)

\* The server with threads that are scheduled fairly; when requests arrive
\* and when the garbage collector runs stays open.
FairSpec == Init /\ [][Next]_vars /\ \A t \in Threads : WF_vars(ThreadStep(t))

-----------------------------------------------------------------------------
(* Properties                                                              *)

\* Positions of a call between its "initializing" transition and the end
\* of its with block.
InFlight == {"connect", "fetch", "loop", "finish", "exit"}

\* T occurs in s as a case-insensitive substring.
Contains(s, T) ==
    \E i \in 1..(Len(s) - Len(T) + 1) :
        \A j \in 1..Len(T) : Lower(s[i + j - 1]) = Lower(T[j])

\* The ids of the batch the completed run ingested.
IngestedIds == {ingested[n].id : n \in 1..Len(ingested)}

\* The request of thread t has been answered by the handler of route r,
\* which read the state s at its gate.
Answered(t, r) == pc[t] = "teardown" /\ req[t].route = r
GatedRoutes == {"search", "card"}

\* A message of the two upstream failures.
IsUpstreamFailure(msg) ==
    \/ msg = <<"No card data received from API">>
    \/ (Len(msg) = 2 /\ msg[1] = "API returned status code")

\* C1: a /search or /card/<id> request whose handler finds db_status.state
\* other than "ready" is answered 503 and has not queried the store, read or
\* written the image cache, fetched from the network or opened a connection.
C1_ReadinessGate ==
    \A t \in Threads :
        (req[t].route \in GatedRoutes /\ req[t].gate # "ready") =>
            /\ pc[t] = "teardown"
            /\ resp[t].status = 503
            /\ resp[t].touched = {}
            /\ ~g_db[t]

C1_Witness ==
    \E t \in Threads :
        /\ Answered(t, "search")
        /\ req[t].gate = "updating"
        /\ resp[t].status = 503

C3_ExactlyOnce == upstream_calls <= 1

\* C4: once a run has completed successfully, a call of initialize_database
\* that takes the lock returns without starting a run: it fetches nothing,
\* inserts nothing and leaves every field of db_status as it was.
C4_Idempotent ==
    [][\A t \in Threads :
          (initialized /\ pc[t] \in {"call", "check"} /\ pc'[t] # pc[t]) =>
              /\ pc'[t] \in {"check", "mw_return"}
              /\ db_status' = db_status
              /\ upstream_calls' = upstream_calls
              /\ cards_table' = cards_table
              /\ table_exists' = table_exists
              /\ conn' = conn
              /\ initialized']_vars

C4_Witness ==
    /\ initialized
    /\ upstream_calls = 1
    /\ db_status.state = "ready"
    /\ \E t, u \in Threads : t # u /\ pc[t] = "mw_return" /\ pc[u] = "mw_return"

\* C5: within a run db_status.progress never decreases from one update to
\* the next, it always lies in 0..100, it is at most 90 while cards are
\* being processed, and it is 100 only when db_status.state is "ready".
C5_ProgressMonotone ==
    [][/\ (\A t \in Threads : ~(pc[t] = "check" /\ pc'[t] = "connect"))
            => db_status'.progress >= db_status.progress
       /\ db_status'.progress \in 0..100
       /\ (\E t \in Threads : pc'[t] = "loop") => db_status'.progress <= 90
       /\ db_status'.progress = 100 => db_status'.state = "ready"]_vars

\* C6: a run whose upstream GET answers a non-200 status or zero records
\* has inserted nothing, has made that one GET only and leaves initialized
\* false; it ends by publishing state "error" with the failure message, and
\* returns.
C6_UpstreamFailureTerminal ==
    [][\A t \in Threads :
          /\ (pc[t] = "fetch" /\ pc'[t] = "except") =>
                /\ IsUpstreamFailure(loc'[t].exc)
                /\ loc'[t].gets = 1
                /\ upstream_calls' = upstream_calls + 1
                /\ ~initialized'
                /\ conn'[t].pending = {}
                /\ cards_table' = cards_table
          /\ (pc[t] = "except" /\ pc'[t] # "except"
                /\ IsUpstreamFailure(loc[t].exc)) =>
                /\ db_status'.state = "error"
                /\ db_status'.error = loc[t].exc
                /\ pc'[t] = "mw_return"
                /\ upstream_calls' = upstream_calls
                /\ cards_table' = cards_table
                /\ initialized' = initialized]_vars

C6_Witness ==
    \E t \in Threads :
        /\ pc[t] = "mw_return"
        /\ db_status.state = "error"
        /\ db_status.error = <<"No card data received from API">>
        /\ upstream_calls = 1
        /\ ~initialized
        /\ cards_table = {}

\* C7: whenever db_status.state is "ready" the store holds the cards table
\* with exactly the ids of the ingested batch, so that a request connection
\* finds each of them and no other id.
C7_StoreSurvives ==
    db_status.state = "ready" =>
        /\ table_exists
        /\ {r.id : r \in cards_table} = IngestedIds

\* C8: a /search answered in state "ready" returns [] for a blank or missing
\* term, and for a term that is non-blank after trimming only records whose
\* name or description contains the term case-insensitively.
C8_SearchSound ==
    \A t \in Threads :
        (Answered(t, "search") /\ req[t].gate = "ready"
            /\ resp[t].status = 200) =>
            LET T == Strip(req[t].term) IN
            IF T = <<>> THEN resp[t].body = <<>>
            ELSE \A n \in 1..Len(resp[t].body) :
                    \/ Contains(resp[t].body[n].name, T)
                    \/ Contains(resp[t].body[n].desc, T)

\* C9: a /search answered in state "ready" for a non-blank term returns the
\* original record of every ingested card whose name or description
\* contains the term case-insensitively, each exactly once.
C9_SearchComplete ==
    \A t \in Threads :
        (Answered(t, "search") /\ req[t].gate = "ready"
            /\ Strip(req[t].term) # <<>>) =>
            LET T == Strip(req[t].term) IN
            /\ resp[t].status = 200
            /\ \A k \in 1..Len(ingested) :
                  (Contains(ingested[k].name, T) \/ Contains(ingested[k].desc, T))
                  => Cardinality({n \in 1..Len(resp[t].body) :
                                     resp[t].body[n] = ingested[k]}) = 1

\* C10: a /card/<id> answered in state "ready" for an id that is not in the
\* store is answered 404, without a network call and without a cache entry
\* for the id.
C10_UnknownImage ==
    \A t \in Threads :
        (Answered(t, "card") /\ req[t].gate = "ready"
            /\ req[t].id \notin IngestedIds) =>
            /\ resp[t].status = 404
            /\ "net" \notin resp[t].touched
            /\ req[t].id \notin DOMAIN image_cache

\* The rows of the batch the completed run ingested.
IngestedRows == {Row(ingested[n]) : n \in 1..Len(ingested)}

\* C11: while db_status.state is "ready" no run is connecting, fetching or
\* inserting, no connection of a run holds uncommitted rows, the store (as
\* long as it exists) holds exactly the rows of every chunk of the ingested
\* batch, and a search that passed the gate and matched every row returned
\* the whole batch.
C11_ReadyAfterCommit ==
    db_status.state = "ready" =>
        /\ \A t \in Threads :
              /\ pc[t] \notin {"connect", "fetch", "loop"}
              /\ conn[t].pending = {}
              /\ ~conn[t].txn
        /\ table_exists => cards_table = IngestedRows
        /\ \A t \in Threads :
              (/\ Answered(t, "search")
               /\ resp[t].status = 200
               /\ Strip(req[t].term) = <<"%">>) =>
                  Len(resp[t].body) = Len(ingested)

C11_Witness ==
    /\ db_status.state = "ready"
    /\ Len(ingested) > batch_size
    /\ cards_table = IngestedRows
    /\ \E t \in Threads :
          /\ Answered(t, "search")
          /\ req[t].gate = "ready"
          /\ Len(resp[t].body) > batch_size

\* C12: every step that changes db_status or initialized is taken by the
\* thread that holds db_lock when the step begins: the lock is held and no
\* other thread moves in that step.
C12_WritesUnderLock ==
    [][(db_status' # db_status \/ initialized' # initialized) =>
          /\ db_lock # 0
          /\ \A u \in Threads \ {db_lock} : pc'[u] = pc[u]]_vars

\* C13: image_cache changes only in the step of a /card/<id> request whose
\* fetch returned 200, which adds the bytes under the requested id; no entry
\* is ever removed; and a /card/<id> request that passed the gate and finds
\* its id in the cache is answered 200 with the cached bytes in that step,
\* without a store connection and without a network fetch.
C13_CacheLazyPermanent ==
    [][/\ \A id \in DOMAIN image_cache : id \in DOMAIN image_cache'
       /\ image_cache' # image_cache =>
             \E t \in Threads :
                 /\ pc[t] = "image" /\ pc'[t] = "teardown"
                 /\ req[t].route = "card"
                 /\ resp'[t].status = 200
                 /\ image_cache' = (req[t].id :> resp'[t].body) @@ image_cache
       /\ \A t \in Threads :
             (/\ pc[t] = "query" /\ pc'[t] # "query"
              /\ req'[t].route = "card"
              /\ req'[t].id \in DOMAIN image_cache) =>
                 /\ pc'[t] = "teardown"
                 /\ resp'[t] = [status |-> 200,
                                body |-> image_cache[req'[t].id],
                                touched |-> {"cache"}]
                 /\ g_db'[t] = g_db[t]]_vars

C13_Witness ==
    /\ Cardinality(DOMAIN image_cache) > 1
    /\ \E t \in Threads :
          /\ Answered(t, "card")
          /\ req[t].gate = "ready"
          /\ resp[t].status = 200
          /\ resp[t].touched = {"cache"}
          /\ ~g_db[t]

\* C14: when the image fetch of a /card/<id> request, whose id is in the
\* store and was not in the cache, returns a status other than 200, the
\* request is answered 404 and that step leaves image_cache unchanged; a
\* request answered this way while the id is still uncached went to the
\* store and the network.
C14_FailedFetchNotCached ==
    [][\A t \in Threads :
          (/\ pc[t] = "image" /\ pc'[t] = "teardown"
           /\ resp'[t].status # 200) =>
              /\ req[t].gate = "ready"
              /\ \E r \in cards_table : r.id = req[t].id
              /\ resp'[t].status = 404
              /\ resp'[t].touched = {"cache", "store", "net"}
              /\ image_cache' = image_cache]_vars

C14_Witness ==
    \E t \in Threads :
        /\ Answered(t, "card")
        /\ resp[t] = [status |-> 404, body |-> <<"Image not found">>,
                      touched |-> {"cache", "store", "net"}]
        /\ req[t].id \notin DOMAIN image_cache
        /\ \E u \in Threads \ {t} :
              /\ pc[u] = "image"
              /\ req[u].id = req[t].id

\* C15: when a run has aborted in the card loop at position k (it is about
\* to record the error), the store holds every card of the chunks before
\* the chunk of position k, and no card of that chunk or of a later one.
C15_PartialFailure ==
    \A t \in Threads :
        (pc[t] = "except" /\ loc[t].cards # <<>>) =>
            LET cards  == loc[t].cards
                k      == loc[t].i + 1
                m      == ((k - 1) \div batch_size) * batch_size
                stored == {r.id : r \in cards_table}
            IN /\ \A n \in 1..m : Row(cards[n]) \in cards_table
               /\ \A n \in (m + 1)..Len(cards) : cards[n].id \notin stored

\* C16: every thread that holds db_lock eventually has returned from
\* initialize_database with the lock released and db_status.state "ready"
\* or "error", and every thread inside the middleware's call (blocked on the
\* lock or running) eventually reaches the dispatch of its request.
C16_RunsEndAndRelease ==
    \A t \in Threads :
        /\ (db_lock = t) ~>
              (/\ pc[t] = "mw_return"
               /\ db_lock # t
               /\ db_status.state \in {"ready", "error"})
        /\ (pc[t] = "call") ~> (pc[t] = "handler")

C16_Witness ==
    \E t \in Threads :
        /\ db_lock = t
        /\ pc[t] = "fetch"
        /\ upstream_calls = 1
        /\ db_status.error # <<>>

\* C17: no reachable state has initialized true, no thread inside a call of
\* initialize_database, and db_status.state "error".
C17_ReadyForever ==
    ~(/\ initialized
      /\ \A t \in Threads :
            pc[t] \notin {"call", "check", "except"} \cup InFlight
      /\ db_status.state = "error")

\* C18: in every reachable state 0 <= current_card <= total_cards, and
\* while db_status.state is "ready" and the store exists, current_card and
\* total_cards both equal the number of cards in the store.
C18_CountersConsistent ==
    /\ 0 <= db_status.current_card
    /\ db_status.current_card <= db_status.total_cards
    /\ (db_status.state = "ready" /\ table_exists) =>
          /\ db_status.current_card = db_status.total_cards
          /\ db_status.total_cards = Cardinality(cards_table)

\* The request of thread t has been passed on to the application.
Dispatched(t) == pc[t] \in {"handler", "query", "image", "teardown"}

\* C19: a request is dispatched only after a call of initialize_database has
\* returned (the middleware's flag is set); a handler never reads
\* db_status.state "not_started", and as long as no run has failed every
\* handler reads "ready", never "initializing" or "updating".
C19_DispatchAfterInit ==
    \A t \in Threads :
        Dispatched(t) =>
            /\ mw_initialized
            /\ db_status.state # "not_started"
            /\ req[t].gate # "not_started"
            /\ ~run_failed =>
                  /\ db_status.state = "ready"
                  /\ req[t].gate \in {"none", "ready"}

C19_Witness ==
    /\ ~run_failed
    /\ \E t \in Threads :
          /\ Answered(t, "db-status")
          /\ req[t].gate = "ready"
          /\ resp[t].body = <<"ready">>
          /\ \E u \in Threads \ {t} : pc[u] = "check"

====
